---- MODULE Spec2Model ----
(***************************************************************************)
(* Model of the apartment energy usage analysis (src/main.py).             *)
(*                                                                         *)
(* The computation functions are pure functions of the consumption matrix  *)
(* apartment_data (apartments x hours).  numpy's real arithmetic is        *)
(* modelled exactly: a rational is a normalised pair <<n, d>>, and a value *)
(* that involves a standard deviation is a quadratic surd a + b*sqrt(m).   *)
(* Floating-point rounding is not modelled.                                *)
(***************************************************************************)
EXTENDS Integers, Sequences, FiniteSets, TLC

\* ------------------------------------------------------------------------
\* Exact arithmetic
\* ------------------------------------------------------------------------

Abs(x) == IF x < 0 THEN -x ELSE x

RECURSIVE GCD(_, _)
GCD(a, b) == IF b = 0 THEN a ELSE GCD(b, a % b)

\* The rational n/d (d # 0) in lowest terms with a positive denominator.
Rat(n, d) ==
    IF n = 0 THEN <<0, 1>>
    ELSE LET g == GCD(Abs(n), Abs(d))
             s == IF d < 0 THEN -1 ELSE 1
         IN  <<(s * n) \div g, (s * d) \div g>>

RInt(n)    == <<n, 1>>
RZero      == <<0, 1>>
ROne       == <<1, 1>>
RAdd(x, y) ==
    IF x[1] = 0 THEN y
    ELSE IF y[1] = 0 THEN x
    ELSE LET g == GCD(x[2], y[2])
         IN  Rat(x[1] * (y[2] \div g) + y[1] * (x[2] \div g), (x[2] \div g) * y[2])
RSub(x, y) == RAdd(x, <<-y[1], y[2]>>)
RMul(x, y) ==
    IF x[1] = 0 \/ y[1] = 0 THEN RZero
    ELSE LET g == GCD(Abs(x[1]), y[2])
             h == GCD(Abs(y[1]), x[2])
         IN  Rat((x[1] \div g) * (y[1] \div h), (x[2] \div h) * (y[2] \div g))
RDiv(x, y) == RMul(x, Rat(y[2], y[1]))
RLt(x, y)  == LET g == GCD(x[2], y[2]) IN x[1] * (y[2] \div g) < y[1] * (x[2] \div g)
RLe(x, y)  == LET g == GCD(x[2], y[2]) IN x[1] * (y[2] \div g) <= y[1] * (x[2] \div g)
RGt(x, y)  == RLt(y, x)

\* The largest r in lo..hi with r*r <= n (lo*lo <= n).
RECURSIVE ISqrtIn(_, _, _)
ISqrtIn(n, lo, hi) ==
    IF lo >= hi THEN lo
    ELSE LET mid == (lo + hi + 1) \div 2
         IN  IF mid * mid <= n THEN ISqrtIn(n, mid, hi) ELSE ISqrtIn(n, lo, mid - 1)

ISqrt(n) == ISqrtIn(n, 0, IF n < 46340 THEN n ELSE 46340)

\* The largest k >= 1 with k*k dividing n (n >= 1).
SquarePart(n) ==
    LET ks == {k \in 1..ISqrt(n) : n % (k * k) = 0}
    IN  CHOOSE k \in ks : \A j \in ks : j <= k

\* The real number a + b*sqrt(m): a, b rationals, m a squarefree integer >= 1,
\* with b = 0 and m = 1 when the value is rational (so equal values are equal records).
Surd(a, b, m) ==
    IF b = RZero \/ m = 0 THEN [a |-> a, b |-> RZero, m |-> 1]
    ELSE LET k == SquarePart(m)
             r == m \div (k * k)
             c == RMul(b, RInt(k))
         IN  IF r = 1 THEN [a |-> RAdd(a, c), b |-> RZero, m |-> 1]
             ELSE [a |-> a, b |-> c, m |-> r]

SRat(x) == [a |-> x, b |-> RZero, m |-> 1]

\* np.sqrt of a rational q = n/d >= 0 in lowest terms: with n = kn^2 * rn and
\* d = kd^2 * rd, sqrt(n/d) = kn/(kd*rd) * sqrt(rn*rd).
SSqrt(q) ==
    IF q[1] = 0 THEN SRat(RZero)
    ELSE LET kn == SquarePart(q[1])
             kd == SquarePart(q[2])
             rn == q[1] \div (kn * kn)
             rd == q[2] \div (kd * kd)
         IN  Surd(RZero, Rat(kn, kd * rd), rn * rd)

SAddRat(x, s) == Surd(RAdd(x, s.a), s.b, s.m)
SMulRat(x, s) == Surd(RMul(x, s.a), RMul(x, s.b), s.m)
SIsZero(s)    == s.a = RZero /\ s.b = RZero

\* The rational (a + b*sqrt(m)) * (a - b*sqrt(m)).
SNorm(s) == RSub(RMul(s.a, s.a), RMul(RMul(s.b, s.b), RInt(s.m)))

\* x / s for a rational x and a surd s # 0.
RDivS(x, s) ==
    LET f == RDiv(x, SNorm(s))
    IN  Surd(RMul(f, s.a), RSub(RZero, RMul(f, s.b)), s.m)

\* s / x for a rational x # 0.
SDivR(s, x) == Surd(RDiv(s.a, x), RDiv(s.b, x), s.m)

\* x > s for a rational x and a surd s.
RGtS(x, s) ==
    LET u  == RSub(x, s.a)
        uu == RMul(u, u)
        bb == RMul(RMul(s.b, s.b), RInt(s.m))
    IN  IF RLe(RZero, s.b)
        THEN RLt(RZero, u) /\ RLt(bb, uu)
        ELSE RLe(RZero, u) \/ RLt(uu, bb)

\* ------------------------------------------------------------------------
\* numpy reductions on vectors (sequences) and matrices (sequences of rows)
\* ------------------------------------------------------------------------

\* Reductions over v[lo..hi] by halving, so that the evaluation stays shallow.
RECURSIVE SumIntIn(_, _, _)
SumIntIn(v, lo, hi) ==
    IF lo > hi THEN 0
    ELSE IF lo = hi THEN v[lo]
    ELSE LET mid == (lo + hi) \div 2
         IN  SumIntIn(v, lo, mid) + SumIntIn(v, mid + 1, hi)

RECURSIVE SumRatIn(_, _, _)
SumRatIn(v, lo, hi) ==
    IF lo > hi THEN RZero
    ELSE IF lo = hi THEN v[lo]
    ELSE LET mid == (lo + hi) \div 2
         IN  RAdd(SumRatIn(v, lo, mid), SumRatIn(v, mid + 1, hi))

\* np.sum of a vector of integers, of rationals.
SumInt(v) == SumIntIn(v, 1, Len(v))
SumRat(v) == SumRatIn(v, 1, Len(v))

\* np.max, np.min of a non-empty vector of integers.
MaxInt(v) == CHOOSE x \in {v[i] : i \in 1..Len(v)} : \A i \in 1..Len(v) : v[i] <= x
MinInt(v) == CHOOSE x \in {v[i] : i \in 1..Len(v)} : \A i \in 1..Len(v) : x <= v[i]

NumRows(data) == Len(data)
NumCols(data) == Len(data[1])
Column(data, j) == [i \in 1..NumRows(data) |-> data[i][j]]
IntsToRats(v) == [i \in 1..Len(v) |-> RInt(v[i])]

\* np.mean of a vector of rationals.
Mean(v) == RDiv(SumRat(v), RInt(Len(v)))

\* np.var: the population variance (divisor N).
Var(v) ==
    LET mu == Mean(v)
        sq == [i \in 1..Len(v) |-> RMul(RSub(v[i], mu), RSub(v[i], mu))]
    IN  Mean(sq)

\* np.std: the population standard deviation.
Std(v) == SSqrt(Var(v))

\* The k-th smallest value of v (k in 1..Len(v)).
KthSmallest(v, k) ==
    CHOOSE x \in {v[i] : i \in 1..Len(v)} :
        /\ Cardinality({j \in 1..Len(v) : RLt(v[j], x)}) < k
        /\ Cardinality({j \in 1..Len(v) : RLe(v[j], x)}) >= k

\* np.median: the middle value, or the mean of the two middle values.
Median(v) ==
    LET n == Len(v)
    IN  IF n % 2 = 1 THEN KthSmallest(v, (n + 1) \div 2)
        ELSE RDiv(RAdd(KthSmallest(v, n \div 2), KthSmallest(v, n \div 2 + 1)), RInt(2))

\* ------------------------------------------------------------------------
\* 1. Data and configuration
\* ------------------------------------------------------------------------

columns ==
    << "Hour_00", "Hour_01", "Hour_02", "Hour_03", "Hour_04", "Hour_05", "Hour_06", "Hour_07",
       "Hour_08", "Hour_09", "Hour_10", "Hour_11", "Hour_12", "Hour_13", "Hour_14", "Hour_15",
       "Hour_16", "Hour_17", "Hour_18", "Hour_19", "Hour_20", "Hour_21", "Hour_22", "Hour_23" >>

rows ==
    << "Apartment_1", "Apartment_2", "Apartment_3", "Apartment_4", "Apartment_5",
       "Apartment_6", "Apartment_7", "Apartment_8", "Apartment_9", "Apartment_10",
       "Apartment_11", "Apartment_12", "Apartment_13", "Apartment_14", "Apartment_15",
       "Apartment_16", "Apartment_17", "Apartment_18", "Apartment_19", "Apartment_20" >>

\* What a call yields: its return value, or the exception it raises.
Returned(v) == [error |-> "none", value |-> v]
Raised(e)   == [error |-> e, value |-> <<>>]

\* ------------------------------------------------------------------------
\* 2. Computation section
\* ------------------------------------------------------------------------

\* B. Apartment usage

compute_apartment_energy_total(apartment_data) ==
    [i \in 1..NumRows(apartment_data) |-> SumInt(apartment_data[i])]

compute_apartment_energy_averages(apartment_data) ==
    [i \in 1..NumRows(apartment_data) |-> Mean(IntsToRats(apartment_data[i]))]

compute_population_usage_statistics(apartment_avg) ==
    [mean   |-> Mean(apartment_avg),
     median |-> Median(apartment_avg),
     std    |-> Std(apartment_avg)]

K == <<7, 10>>

\* compute_high_consumption_flags with >= in place of > on line 72.
compute_high_consumption_flags_NotStrict(apartment_avg, mean, std) ==
    LET THRESHOLD == SAddRat(mean, SMulRat(K, std))
    IN  [threshold |-> THRESHOLD,
         flags     |-> [i \in 1..Len(apartment_avg) |->
                           \/ RGtS(apartment_avg[i], THRESHOLD)
                           \/ SRat(apartment_avg[i]) = THRESHOLD]]

compute_high_consumption_flags(apartment_avg, mean, std) ==
    LET THRESHOLD == SAddRat(mean, SMulRat(K, std))
    IN  [threshold |-> THRESHOLD,
         flags     |-> [i \in 1..Len(apartment_avg) |-> RGtS(apartment_avg[i], THRESHOLD)]]

\* C. Peak consumption periods

compute_time_interval_averages(apartment_data) ==
    [j \in 1..NumCols(apartment_data) |-> Mean(IntsToRats(Column(apartment_data, j)))]

compute_time_interval_maxima(apartment_data) ==
    [j \in 1..NumCols(apartment_data) |-> MaxInt(Column(apartment_data, j))]

compute_peak_time_intervals(time_avg, k) ==
    LET threshold == SAddRat(Mean(time_avg), SMulRat(k, Std(time_avg)))
    IN  [threshold |-> threshold,
         flags     |-> [j \in 1..Len(time_avg) |-> RGtS(time_avg[j], threshold)]]

\* The record appended for one peak hour (hour_index counts from 0).
PeakRecord(apartment_data, hour_index) ==
    LET hour_data   == Column(apartment_data, hour_index + 1)
        hour_rat    == IntsToRats(hour_data)
        bar         == SAddRat(Mean(hour_rat), Std(hour_rat))
        significant == {i \in 1..Len(hour_data) : RGtS(hour_rat[i], bar)}
        total_energy == SumInt(hour_data)
        significant_energy ==
            SumInt([i \in 1..Len(hour_data) |->
                       IF i \in significant THEN hour_data[i] ELSE 0])
    IN  [hour_index             |-> hour_index,
         total_energy           |-> total_energy,
         significant_apartments |-> Cardinality(significant),
         contribution_ratio     |-> IF total_energy > 0
                                    THEN Rat(significant_energy, total_energy)
                                    ELSE RZero]

\* The loop over range(len(columns)) raises IndexError at the first hour_index
\* outside peak_flags, or flagged and outside the matrix.
PeakLoopRaises(cols, apartment_data, peak_flags) ==
    \E hour_index \in 0..(Len(cols) - 1) :
        \/ hour_index >= Len(peak_flags)
        \/ peak_flags[hour_index + 1] /\ hour_index >= NumCols(apartment_data)

compute_peak_contribution_distribution(cols, apartment_data, peak_flags) ==
    IF PeakLoopRaises(cols, apartment_data, peak_flags) THEN Raised("IndexError")
    ELSE LET hours == SelectSeq([h \in 1..Len(cols) |-> h - 1],
                                LAMBDA hour_index : peak_flags[hour_index + 1])
         IN  Returned([n \in 1..Len(hours) |-> PeakRecord(apartment_data, hours[n])])

\* D. Consumption stability metrics

compute_apartment_variance(apartment_data) ==
    [i \in 1..NumRows(apartment_data) |-> Var(IntsToRats(apartment_data[i]))]

compute_apartment_std(apartment_data) ==
    [i \in 1..NumRows(apartment_data) |-> Std(IntsToRats(apartment_data[i]))]

\* compute_apartment_coefficient_of_variation with the test of line 145 on the
\* first apartment only; an apartment it lets through with average 0 gets 0.
compute_apartment_coefficient_of_variation_FirstOnly(apartment_avg, apartment_std) ==
    IF apartment_avg[1] = RZero
    THEN Raised("ValueError: Can not divide by zero.")
    ELSE Returned([i \in 1..Len(apartment_avg) |->
                      IF apartment_avg[i] = RZero THEN SRat(RZero)
                      ELSE SDivR(apartment_std[i], apartment_avg[i])])

compute_apartment_coefficient_of_variation(apartment_avg, apartment_std) ==
    IF \E i \in 1..Len(apartment_avg) : apartment_avg[i] = RZero
    THEN Raised("ValueError: Can not divide by zero.")
    ELSE Returned([i \in 1..Len(apartment_avg) |-> SDivR(apartment_std[i], apartment_avg[i])])

compute_stability_scores(apartment_cv) ==
    [i \in 1..Len(apartment_cv) |-> RDivS(ROne, SAddRat(ROne, apartment_cv[i]))]

\* E. Normalized profiles

\* compute_min_max_normalized_profiles with the minimum and maximum of the
\* whole matrix (np.min, np.max without axis=0) in place of each hour's own.
compute_min_max_normalized_profiles_WholeMatrix(apartment_data) ==
    LET all == [n \in 1..(NumRows(apartment_data) * NumCols(apartment_data)) |->
                   apartment_data[1 + ((n - 1) \div NumCols(apartment_data))]
                                 [1 + ((n - 1) % NumCols(apartment_data))]]
        lo  == MinInt(all)
        hi  == MaxInt(all)
    IN  IF hi - lo = 0
        THEN Raised("ValueError: Cannot normalize: at least one hour has zero variance")
        ELSE Returned([i \in 1..NumRows(apartment_data) |->
                          [j \in 1..NumCols(apartment_data) |->
                              Rat(apartment_data[i][j] - lo, hi - lo)]])

compute_min_max_normalized_profiles(apartment_data) ==
    LET min_per_hour == [j \in 1..NumCols(apartment_data) |-> MinInt(Column(apartment_data, j))]
        max_per_hour == [j \in 1..NumCols(apartment_data) |-> MaxInt(Column(apartment_data, j))]
        range_per_hour == [j \in 1..NumCols(apartment_data) |-> max_per_hour[j] - min_per_hour[j]]
    IN  IF \E j \in 1..NumCols(apartment_data) : range_per_hour[j] = 0
        THEN Raised("ValueError: Cannot normalize: at least one hour has zero variance")
        ELSE Returned([i \in 1..NumRows(apartment_data) |->
                          [j \in 1..NumCols(apartment_data) |->
                              Rat(apartment_data[i][j] - min_per_hour[j], range_per_hour[j])]])

compute_z_score_normalized_profiles(apartment_data) ==
    LET mean_per_hour == [j \in 1..NumCols(apartment_data) |->
                             Mean(IntsToRats(Column(apartment_data, j)))]
        std_per_hour  == [j \in 1..NumCols(apartment_data) |->
                             Std(IntsToRats(Column(apartment_data, j)))]
    IN  IF \E j \in 1..NumCols(apartment_data) : SIsZero(std_per_hour[j])
        THEN Raised("ValueError: Cannot z-normalize: at least one hour has zero std")
        ELSE Returned([i \in 1..NumRows(apartment_data) |->
                          [j \in 1..NumCols(apartment_data) |->
                              RDivS(RSub(RInt(apartment_data[i][j]), mean_per_hour[j]),
                                    std_per_hour[j])]])

\* ------------------------------------------------------------------------
\* 3. Reporting / presentation section
\* ------------------------------------------------------------------------

\* floor(x) of a rational x.
Floor(x) == x[1] \div x[2]

\* round(x, 2) of a rational x >= 0: the nearest multiple of 1/100, a tie to the even one.
Round2(x) ==
    LET y == RMul(x, RInt(100))
        f == Floor(y)
        r == RSub(y, RInt(f))
        n == IF RLt(<<1, 2>>, r) THEN f + 1
             ELSE IF r = <<1, 2>> /\ f % 2 = 1 THEN f + 1
             ELSE f
    IN  Rat(n, 100)

\* Interpretation with >= 0.5 in place of > 0.5 on lines 265 and 267.
Interpretation_HalfIncluded(significant_count, contribution_ratio) ==
    IF significant_count <= 2 /\ RLe(<<1, 2>>, contribution_ratio)
    THEN "Peak driven by a few extreme consumers."
    ELSE IF significant_count > 2 /\ RLe(<<1, 2>>, contribution_ratio)
    THEN "Peak driven by several high-usage apartments."
    ELSE "Peak caused by moderate increases across apartments."

\* The interpretation printed for one peak hour.
Interpretation(significant_count, contribution_ratio) ==
    IF significant_count <= 2 /\ RGt(contribution_ratio, <<1, 2>>)
    THEN "Peak driven by a few extreme consumers."
    ELSE IF significant_count > 2 /\ RGt(contribution_ratio, <<1, 2>>)
    THEN "Peak driven by several high-usage apartments."
    ELSE "Peak caused by moderate increases across apartments."

\* What is printed for one record of peak_analysis.
PeakLines(peak, cols) ==
    [hour_label            |-> cols[peak.hour_index + 1],
     total_energy          |-> peak.total_energy,
     high_usage_apartments |-> peak.significant_apartments,
     contribution_percent  |-> Round2(RMul(peak.contribution_ratio, RInt(100))),
     interpretation        |-> Interpretation(peak.significant_apartments,
                                              peak.contribution_ratio)]

print_peak_contribution_distribution(peak_analysis, cols) ==
    IF peak_analysis = <<>> THEN <<"No peak hours detected.">>
    ELSE [n \in 1..Len(peak_analysis) |-> PeakLines(peak_analysis[n], cols)]

\* np.argsort(stability_scores): an order of the indices 0..A-1 with ascending
\* scores.  The default sort kind is not stable: equal scores come in any order.
Argsort(stability_scores) ==
    LET A == Len(stability_scores)
    IN  {p \in [1..A -> 0..(A - 1)] :
            /\ \A i, j \in 1..A : i # j => p[i] # p[j]
            /\ \A i \in 1..(A - 1) :
                  stability_scores[p[i] + 1] <= stability_scores[p[i + 1] + 1]}

Reverse(s) == [i \in 1..Len(s) |-> s[Len(s) + 1 - i]]

\* The slice s[-n:] for n >= 0.
SliceLast(s, n) ==
    IF n = 0 \/ n >= Len(s) THEN s ELSE SubSeq(s, Len(s) - n + 1, Len(s))

\* The slice s[:n] for n >= 0.
SliceFirst(s, n) == IF n >= Len(s) THEN s ELSE SubSeq(s, 1, n)

\* The two rankings print_most_stable_and_irregular_apartments prints, given what
\* np.argsort returned.
print_most_stable_and_irregular_apartments(labels, stability_scores, top_n, sorted_indices) ==
    LET stable_indices   == Reverse(SliceLast(sorted_indices, top_n))
        unstable_indices == SliceFirst(sorted_indices, top_n)
        Lines(indices)   == [n \in 1..Len(indices) |->
                                <<labels[indices[n] + 1], stability_scores[indices[n] + 1]>>]
    IN  [stable_indices   |-> stable_indices,
         unstable_indices |-> unstable_indices,
         stable_lines     |-> Lines(stable_indices),
         unstable_lines   |-> Lines(unstable_indices)]

\* ------------------------------------------------------------------------
\* State
\* ------------------------------------------------------------------------

VARIABLES
    pc,              \* where the run is
    step,            \* main: the next assignment or report; a harness: the next call
    call,            \* the function called last ("main" for the whole run)
    apartment_data,  \* the consumption matrix
    args,            \* the other arguments of the call
    result,          \* what the call returned or raised
    locals,          \* the local variables assigned so far, by name
    output           \* what has been printed, in order

vars == <<pc, step, call, apartment_data, args, result, locals, output>>

NoArgs ==
    [cols |-> <<>>, peak_flags |-> <<>>, k |-> RZero,
     stability_scores |-> <<>>, top_n |-> 0, peak_analysis |-> <<>>]

NoResult == [error |-> "none", value |-> <<>>]

NoLocals == [name \in {} |-> <<>>]

\* ------------------------------------------------------------------------
\* 4. Main function
\* ------------------------------------------------------------------------

\* The assignments of lines 338-358 in order.  A tuple assignment is one local:
\* population is (population_mean, population_median, population_std),
\* high_consumption is (apartment_threshold, high_consumption_flags) and
\* peak_time is (time_threshold, peak_time_intervals).
Assignments ==
    << "apartment_avg", "apartment_total", "population", "high_consumption",
       "time_interval_avg", "time_interval_max", "peak_time",
       "peak_contribution_distribution",
       "apartment_var", "apartment_std", "apartment_cv", "apartment_stability_score",
       "min_max_normalized_data", "z_score_normalized_data" >>

\* The locals the right-hand side of an assignment reads.
Reads(name) ==
    CASE name = "population"                     -> {"apartment_avg"}
      [] name = "high_consumption"               -> {"apartment_avg", "population"}
      [] name = "peak_time"                      -> {"time_interval_avg"}
      [] name = "peak_contribution_distribution" -> {"peak_time"}
      [] name = "apartment_cv"                   -> {"apartment_avg", "apartment_std"}
      [] name = "apartment_stability_score"      -> {"apartment_cv"}
      [] OTHER                                   -> {}

\* The call on the right-hand side of the assignment to name, with the locals L
\* and the peak sensitivity k.
RightHandSide(name, data, L, k) ==
    CASE name = "apartment_avg" ->
             Returned(compute_apartment_energy_averages(data))
      [] name = "apartment_total" ->
             Returned(compute_apartment_energy_total(data))
      [] name = "population" ->
             Returned(compute_population_usage_statistics(L["apartment_avg"]))
      [] name = "high_consumption" ->
             Returned(compute_high_consumption_flags(
                          L["apartment_avg"], L["population"].mean, L["population"].std))
      [] name = "time_interval_avg" ->
             Returned(compute_time_interval_averages(data))
      [] name = "time_interval_max" ->
             Returned(compute_time_interval_maxima(data))
      [] name = "peak_time" ->
             Returned(compute_peak_time_intervals(L["time_interval_avg"], k))
      [] name = "peak_contribution_distribution" ->
             compute_peak_contribution_distribution(columns, data, L["peak_time"].flags)
      [] name = "apartment_var" ->
             Returned(compute_apartment_variance(data))
      [] name = "apartment_std" ->
             Returned(compute_apartment_std(data))
      [] name = "apartment_cv" ->
             compute_apartment_coefficient_of_variation(L["apartment_avg"], L["apartment_std"])
      [] name = "apartment_stability_score" ->
             Returned(compute_stability_scores(L["apartment_cv"]))
      [] name = "min_max_normalized_data" ->
             compute_min_max_normalized_profiles(data)
      [] name = "z_score_normalized_data" ->
             compute_z_score_normalized_profiles(data)

\* Reading a local that was never assigned raises UnboundLocalError.
Evaluate(name, data, L, k) ==
    IF Reads(name) \subseteq DOMAIN L
    THEN RightHandSide(name, data, L, k)
    ELSE Raised("UnboundLocalError")

ValueErrors ==
    {"ValueError: Can not divide by zero.",
     "ValueError: Cannot normalize: at least one hour has zero variance",
     "ValueError: Cannot z-normalize: at least one hour has zero std"}

\* The assignments inside a try whose handler catches ValueError (lines 350-353
\* and 356-360).
InTry == {"apartment_cv", "min_max_normalized_data", "z_score_normalized_data"}

\* A 20 x 24 matrix of readings 1..3, with row zero_row (if any) all 0 and
\* column const_col (if any) all const_val.
MainMatrix(zero_row, const_col, const_val, v) ==
    [i \in 1..Len(rows) |->
        [j \in 1..Len(columns) |->
            IF j = const_col THEN const_val
            ELSE IF i = zero_row THEN 0
            ELSE 1 + ((i * v + j) % 3)]]

MainMatrices ==
    {MainMatrix(zr, cc, cv, v) : zr \in {0, 1, 20}, cc \in {0, 1, 24}, cv \in {0, 2}, v \in {1, 2}}

\* The reports of lines 362-460 in order, each with the locals it reads.
MainReports ==
    << [fn |-> "print_apartment_data", reads |-> {}],
       [fn |-> "print_apartment_total", reads |-> {"apartment_total"}],
       [fn |-> "print_apartment_averages", reads |-> {"apartment_avg"}],
       [fn |-> "print_population_usage_statistics", reads |-> {"population"}],
       [fn |-> "print_high_consumption_flags_by_apartment", reads |-> {"high_consumption"}],
       [fn |-> "print_time_interval_averages", reads |-> {"time_interval_avg"}],
       [fn |-> "print_time_interval_max_values", reads |-> {"time_interval_max"}],
       [fn |-> "print_high_consumption_flags_by_time_averages", reads |-> {"peak_time"}],
       [fn |-> "print_peak_contribution_distribution",
        reads |-> {"peak_contribution_distribution"}],
       [fn |-> "print_apartment_variance", reads |-> {"apartment_var"}],
       [fn |-> "print_apartment_std", reads |-> {"apartment_std"}],
       [fn |-> "print_apartment_coefficient_of_variation", reads |-> {"apartment_cv"}],
       [fn |-> "print_stability_scores", reads |-> {"apartment_stability_score"}],
       [fn |-> "print_most_stable_and_irregular_apartments",
        reads |-> {"apartment_stability_score"}],
       [fn |-> "print_normalization_explanation", reads |-> {}],
       [fn |-> "print_normalized_profiles MIN-MAX NORMALIZATION",
        reads |-> {"min_max_normalized_data"}],
       [fn |-> "print_normalized_profiles Z-SCORE NORMALIZATION",
        reads |-> {"z_score_normalized_data"}] >>

InitMain ==
    /\ pc = "assign"
    /\ step = 1
    /\ call = "main"
    /\ apartment_data \in MainMatrices
    /\ args = [NoArgs EXCEPT !.k = <<8, 10>>]
    /\ result = NoResult
    /\ locals = NoLocals
    /\ output = <<>>

\* An exception nothing catches ends the run.
Abort(e) ==
    /\ pc' = "aborted"
    /\ result' = Raised(e)
    /\ step' = step

\* On to the assignment after number n, or to the reports after the last one.
GoToAssignment(n) ==
    IF n > Len(Assignments)
    THEN pc' = "report" /\ step' = 1
    ELSE pc' = "assign" /\ step' = n

\* The handler of line 352 has printed the error: on to line 354.
AfterStabilityError == GoToAssignment(step + 1)

\* The handler of line 359 missing: the ValueError ends the run.
AfterNormalizationError_Uncaught == pc' = "aborted" /\ step' = step

\* The handler of line 359 has printed the error: on to line 362.
AfterNormalizationError == GoToAssignment(Len(Assignments) + 1)

\* Lines 338-360, one assignment at a time.
MainAssign ==
    /\ pc = "assign"
    /\ LET name == Assignments[step]
           r    == Evaluate(name, apartment_data, locals, args.k)
       IN  IF r.error = "none"
           THEN /\ locals' = locals @@ (name :> r.value)
                /\ GoToAssignment(step + 1)
                /\ UNCHANGED <<result, output>>
           ELSE IF name \in InTry /\ r.error \in ValueErrors
           THEN /\ output' = Append(output, r.error)
                /\ IF name = "apartment_cv"
                   THEN AfterStabilityError
                   ELSE AfterNormalizationError
                /\ UNCHANGED <<result, locals>>
           ELSE /\ Abort(r.error)
                /\ UNCHANGED <<locals, output>>
    /\ UNCHANGED <<call, apartment_data, args>>

\* Lines 362-460, one report at a time.
MainReport ==
    /\ pc = "report"
    /\ IF step > Len(MainReports)
       THEN /\ pc' = "done"
            /\ UNCHANGED <<step, result, output>>
       ELSE IF MainReports[step].reads \subseteq DOMAIN locals
       THEN /\ output' = Append(output, MainReports[step].fn)
            /\ step' = step + 1
            /\ UNCHANGED <<pc, result>>
       ELSE /\ Abort("UnboundLocalError")
            /\ output' = output
    /\ UNCHANGED <<call, apartment_data, args, locals>>

NextMain == MainAssign \/ MainReport

Spec == InitMain /\ [][NextMain]_vars

\* The reports printed so far (the error messages are not reports).
ReportNames == {MainReports[n].fn : n \in 1..Len(MainReports)}
Printed == SelectSeq(output, LAMBDA line : line \in ReportNames)


\* ------------------------------------------------------------------------
\* The computation functions, called in main's order on every small matrix
\* ------------------------------------------------------------------------

MaxCells == 4
MaxVal == 2

\* Every matrix of at most MaxCells readings, each in 0..MaxVal.
Matrices ==
    UNION {[1..d[1] -> [1..d[2] -> 0..MaxVal]] :
              d \in {e \in (1..MaxCells) \X (1..MaxCells) : e[1] * e[2] <= MaxCells}}

\* The matrix of the end-to-end example.
ExampleMatrix == << <<1, 2, 3>>, <<4, 5, 9>> >>

\* The sensitivities compute_peak_time_intervals is called with (main passes 0.8).
PeakSensitivities == {<<0, 1>>, <<8, 10>>, <<2, 1>>}

\* The function on the right-hand side of the assignment to name.
Callee(name) ==
    CASE name = "apartment_avg"     -> "compute_apartment_energy_averages"
      [] name = "apartment_total"   -> "compute_apartment_energy_total"
      [] name = "population"        -> "compute_population_usage_statistics"
      [] name = "high_consumption"  -> "compute_high_consumption_flags"
      [] name = "time_interval_avg" -> "compute_time_interval_averages"
      [] name = "time_interval_max" -> "compute_time_interval_maxima"
      [] name = "peak_time"         -> "compute_peak_time_intervals"
      [] name = "peak_contribution_distribution" ->
             "compute_peak_contribution_distribution"
      [] name = "apartment_var"     -> "compute_apartment_variance"
      [] name = "apartment_std"     -> "compute_apartment_std"
      [] name = "apartment_cv"      -> "compute_apartment_coefficient_of_variation"
      [] name = "apartment_stability_score" -> "compute_stability_scores"
      [] name = "min_max_normalized_data"   -> "compute_min_max_normalized_profiles"
      [] name = "z_score_normalized_data"   -> "compute_z_score_normalized_profiles"

InitStat ==
    /\ pc = "call"
    /\ step = 1
    /\ call = "none"
    /\ apartment_data \in Matrices \cup {ExampleMatrix}
    /\ args = NoArgs
    /\ result = NoResult
    /\ locals = NoLocals
    /\ output = <<>>

\* The assignments of main, each after those whose results it reads, the two
\* that depend on the sensitivity last.
CallOrder ==
    << "apartment_avg", "apartment_total", "population", "high_consumption",
       "time_interval_avg", "time_interval_max",
       "apartment_var", "apartment_std", "apartment_cv", "apartment_stability_score",
       "min_max_normalized_data", "z_score_normalized_data",
       "peak_time", "peak_contribution_distribution" >>

\* The call of assignment CallOrder[step], made with the arguments main passes it
\* (and any sensitivity); what it returns is kept for the calls that take it.
CallFunction ==
    /\ pc = "call"
    /\ step <= Len(CallOrder)
    /\ Reads(CallOrder[step]) \subseteq DOMAIN locals
    /\ \E k \in IF CallOrder[step] = "peak_time" THEN PeakSensitivities ELSE {args.k} :
          LET name == CallOrder[step]
              r    == RightHandSide(name, apartment_data, locals, k)
          IN  /\ call' = Callee(name)
              /\ args' = [args EXCEPT !.k = k]
              /\ result' = r
              /\ locals' = IF r.error = "none" THEN locals @@ (name :> r.value) ELSE locals
    /\ step' = step + 1
    /\ UNCHANGED <<pc, apartment_data, output>>

\* A call whose argument could not be computed is not made.
SkipFunction ==
    /\ pc = "call"
    /\ step <= Len(CallOrder)
    /\ ~(Reads(CallOrder[step]) \subseteq DOMAIN locals)
    /\ step' = step + 1
    /\ UNCHANGED <<pc, call, apartment_data, args, result, locals, output>>

NextStat == CallFunction \/ SkipFunction

SpecStat == InitStat /\ [][NextStat]_vars

\* ------------------------------------------------------------------------
\* compute_peak_contribution_distribution on any labels, matrix and flags
\* ------------------------------------------------------------------------

\* The first n labels of columns.
Labels(n) == SubSeq(columns, 1, n)

\* A 2 x H matrix for H around Len(columns), and flags raised on the hours in S.
WideMatrix(H, v) == [i \in 1..2 |-> [j \in 1..H |-> (i * v + j) % 3]]
WideFlags(H, S)  == [j \in 1..H |-> j \in S]

\* Small matrices with every flag vector of their width, under labels one fewer,
\* as many and one more than the hours and under the configured columns; and wide
\* matrices of 23, 24 and 25 hours under the configured columns.
PeakInputs ==
    {[cols |-> c, data |-> t[1], peak_flags |-> t[2]] :
        <<t, c>> \in {u \in ({v \in Matrices \X UNION {[1..H -> BOOLEAN] : H \in 1..MaxCells} :
                                Len(v[2]) = NumCols(v[1])})
                            \X ({Labels(n) : n \in 0..(MaxCells + 1)} \cup {columns}) :
                         \/ u[2] = columns
                         \/ Len(u[2]) \in (NumCols(u[1][1]) - 1)..(NumCols(u[1][1]) + 1)}}
    \cup
    {[cols |-> columns, data |-> WideMatrix(t[1], t[2]), peak_flags |-> WideFlags(t[1], t[3])] :
        t \in {u \in (23..25) \X (1..2) \X {{}, {1}, {2, 23}, {24}, {3, 25}} :
                  u[3] \subseteq 1..u[1]}}

InitPeak ==
    /\ pc = "call"
    /\ step = 1
    /\ call = "none"
    /\ \E in \in PeakInputs :
          /\ apartment_data = in.data
          /\ args = [NoArgs EXCEPT !.cols = in.cols, !.peak_flags = in.peak_flags]
    /\ result = NoResult
    /\ locals = NoLocals
    /\ output = <<>>

CallPeakContribution ==
    /\ pc = "call"
    /\ pc' = "returned"
    /\ call' = "compute_peak_contribution_distribution"
    /\ result' = compute_peak_contribution_distribution(args.cols, apartment_data,
                                                        args.peak_flags)
    /\ UNCHANGED <<step, apartment_data, args, locals, output>>

NextPeak == CallPeakContribution

SpecPeak == InitPeak /\ [][NextPeak]_vars

\* ------------------------------------------------------------------------
\* print_peak_contribution_distribution on any records
\* ------------------------------------------------------------------------

MaxCount == 3
MaxDen == 2
MaxPeaks == 2

\* The ratios n/d in [0, 1] with d <= MaxDen.
Ratios == {Rat(t[1], t[2]) : t \in {u \in (0..MaxDen) \X (1..MaxDen) : u[1] <= u[2]}}

PeakAnalyses ==
    UNION {[1..n -> (0..MaxCount) \X Ratios] : n \in 0..MaxPeaks}

InitInterp ==
    /\ pc = "call"
    /\ step = 1
    /\ call = "none"
    /\ apartment_data = <<>>
    /\ \E p \in PeakAnalyses :
          args = [NoArgs EXCEPT
                     !.cols = columns,
                     !.peak_analysis =
                         [n \in 1..Len(p) |->
                             [hour_index             |-> n - 1,
                              total_energy           |-> 1,
                              significant_apartments |-> p[n][1],
                              contribution_ratio     |-> p[n][2]]]]
    /\ result = NoResult
    /\ locals = NoLocals
    /\ output = <<>>

CallPrintPeakContribution ==
    /\ pc = "call"
    /\ pc' = "returned"
    /\ call' = "print_peak_contribution_distribution"
    /\ output' = print_peak_contribution_distribution(args.peak_analysis, args.cols)
    /\ UNCHANGED <<step, apartment_data, args, result, locals>>

NextInterp == CallPrintPeakContribution

SpecInterp == InitInterp /\ [][NextInterp]_vars

\* ------------------------------------------------------------------------
\* print_most_stable_and_irregular_apartments on any scores
\* ------------------------------------------------------------------------

RankMaxA == 3
MaxScore == 2

\* The scores of the ranking example, times 10.
ExampleScores == <<9, 1, 5, 9, 2>>

InitRank ==
    /\ pc = "call"
    /\ step = 1
    /\ call = "none"
    /\ apartment_data = <<>>
    /\ \E s \in UNION {[1..A -> 0..MaxScore] : A \in 1..RankMaxA} \cup {ExampleScores},
          n \in 0..(RankMaxA + 1) :
          args = [NoArgs EXCEPT !.stability_scores = s, !.top_n = n]
    /\ result = NoResult
    /\ locals = NoLocals
    /\ output = <<>>

\* One call, for each order np.argsort may return.
CallRanking ==
    /\ pc = "call"
    /\ pc' = "returned"
    /\ call' = "print_most_stable_and_irregular_apartments"
    /\ \E sorted_indices \in Argsort(args.stability_scores) :
          result' = Returned(print_most_stable_and_irregular_apartments(
                                 rows, args.stability_scores, args.top_n, sorted_indices))
    /\ UNCHANGED <<step, apartment_data, args, locals, output>>

NextRank == CallRanking

SpecRank == InitRank /\ [][NextRank]_vars

\* ------------------------------------------------------------------------
\* Properties of the run of main (Spec)
\* ------------------------------------------------------------------------

Range(s) == {s[i] : i \in 1..Len(s)}

RunOver == pc \in {"done", "aborted"}

StabilityFailed     == "ValueError: Can not divide by zero." \in Range(output)
NormalizationFailed ==
    \/ "ValueError: Cannot normalize: at least one hour has zero variance" \in Range(output)
    \/ "ValueError: Cannot z-normalize: at least one hour has zero std" \in Range(output)

AggregationOutlierTemporalReports ==
    << "print_apartment_data",
       "print_apartment_total",
       "print_apartment_averages",
       "print_population_usage_statistics",
       "print_high_consumption_flags_by_apartment",
       "print_time_interval_averages",
       "print_time_interval_max_values",
       "print_high_consumption_flags_by_time_averages",
       "print_peak_contribution_distribution" >>

StabilityReports ==
    << "print_apartment_variance",
       "print_apartment_std",
       "print_apartment_coefficient_of_variation",
       "print_stability_scores",
       "print_most_stable_and_irregular_apartments" >>

\* C1: when the coefficient of variation fails (some apartment's average is 0), the
\* failure is caught and the run still prints the aggregation, outlier and temporal
\* reports before it ends.
C1_ReportsSurviveStabilityFailure ==
    (RunOver /\ StabilityFailed) =>
        Range(AggregationOutlierTemporalReports) \subseteq Range(output)

\* C2: when the coefficient of variation succeeds and a normalization fails on a
\* constant hour, the failure is caught (nothing is raised before the reports
\* start) and the run prints, before it ends, every report up to the ranking, in
\* the order in which a run without failure prints them.
C2_ReportsSurviveNormalizationFailure ==
    LET expected == AggregationOutlierTemporalReports \o StabilityReports
    IN  /\ (NormalizationFailed /\ ~StabilityFailed) =>
               /\ pc # "assign"
               /\ pc = "aborted" => Len(Printed) >= Len(expected)
        /\ (RunOver /\ ((NormalizationFailed /\ ~StabilityFailed) \/ pc = "done")) =>
               /\ Len(Printed) >= Len(expected)
               /\ SubSeq(Printed, 1, Len(expected)) = expected

\* A run over after a constant hour made the min-max normalization fail, with the
\* coefficient of variation computed and the reports up to the ranking printed.
C2_Witness ==
    /\ RunOver
    /\ NormalizationFailed
    /\ "apartment_cv" \in DOMAIN locals
    /\ "min_max_normalized_data" \notin DOMAIN locals
    /\ "print_most_stable_and_irregular_apartments" \in Range(Printed)

\* ------------------------------------------------------------------------
\* Properties of the computation functions (SpecStat)
\* ------------------------------------------------------------------------

\* The square of a surd with a = 0 or b = 0 (every standard deviation is one).
SurdSquare(s) == RAdd(RMul(s.a, s.a), RMul(RMul(s.b, s.b), RInt(s.m)))

Square(n) == n * n

\* C5: the coefficient of variation fails iff some apartment's average is exactly 0
\* (its readings sum to 0); a failure returns no value for any apartment; a success
\* returns, for every row i in order, the value that times avg[i] gives std[i].
C5_CoefficientOfVariationAllOrNothing ==
    call = "compute_apartment_coefficient_of_variation" =>
        LET A   == NumRows(apartment_data)
            avg == locals["apartment_avg"]
            std == locals["apartment_std"]
            SomeZero == \E i \in 1..A : avg[i] = RZero
        IN  /\ SomeZero <=> (\E i \in 1..A : SumInt(apartment_data[i]) = 0)
            /\ (result.error # "none") <=> SomeZero
            /\ result.error # "none" =>
                   /\ result.value = <<>>
                   /\ "apartment_cv" \notin DOMAIN locals
            /\ result.error = "none" =>
                   /\ Len(result.value) = A
                   /\ \A i \in 1..A : SMulRat(avg[i], result.value[i]) = std[i]

\* The coefficient of variation refused a matrix in which one apartment has average
\* 0 and another does not.
C5_Witness ==
    /\ call = "compute_apartment_coefficient_of_variation"
    /\ result.error = "ValueError: Can not divide by zero."
    /\ \E i, j \in 1..NumRows(apartment_data) :
          /\ locals["apartment_avg"][i] = RZero
          /\ locals["apartment_avg"][j] # RZero

C7_HighConsumptionFlagsStrict ==
    call = "compute_high_consumption_flags" =>
        LET A   == NumRows(apartment_data)
            H   == NumCols(apartment_data)
            S   == [i \in 1..A |-> SumInt(apartment_data[i])]
            T   == SumInt(S)
            d   == [i \in 1..A |-> A * S[i] - T]
            Q   == SumInt([i \in 1..A |-> Square(d[i])])
            avg == locals["apartment_avg"]
            pop == locals["population"]
            threshold == result.value.threshold
            flags     == result.value.flags
        IN  /\ locals["apartment_total"] = S
            /\ \A i \in 1..A : avg[i] = Rat(S[i], H)
            /\ pop.mean = Rat(T, A * H)
            /\ pop.std.a = RZero \/ pop.std.b = RZero
            /\ SurdSquare(pop.std) = Rat(Q, A * A * A * H * H)
            /\ ~RGtS(RZero, pop.std)
            /\ threshold = SAddRat(pop.mean, SMulRat(<<7, 10>>, pop.std))
            /\ Len(flags) = A
            /\ \A i \in 1..A : flags[i] <=> (d[i] > 0 /\ 100 * A * Square(d[i]) > 49 * Q)
            /\ \A i \in 1..A : SRat(avg[i]) = threshold => ~flags[i]
            /\ apartment_data = ExampleMatrix =>
                   /\ S = <<6, 18>>
                   /\ avg = <<RInt(2), RInt(6)>>
                   /\ pop.mean = RInt(4)
                   /\ pop.std = SRat(RInt(2))
                   /\ threshold = SRat(<<27, 5>>)
                   /\ flags = <<FALSE, TRUE>>

\* The flags of the example: the apartment of average 6 is flagged, that of
\* average 2 is not.
C7_Witness ==
    /\ call = "compute_high_consumption_flags"
    /\ apartment_data = ExampleMatrix
    /\ result.value.flags = <<FALSE, TRUE>>
    /\ result.value.threshold = SRat(<<27, 5>>)

\* No lowest value of v is flagged (so none is when all values are equal).
NeverFlagsLowest(v, flags) ==
    \A i \in 1..Len(v) : (\A j \in 1..Len(v) : RLe(v[i], v[j])) => ~flags[i]

\* The thresholding half of C10: neither compute_high_consumption_flags nor
\* compute_peak_time_intervals (k >= 0) flags a lowest average.
ThresholdingNeverFlagsLowest ==
    /\ call = "compute_high_consumption_flags" =>
           NeverFlagsLowest(locals["apartment_avg"], result.value.flags)
    /\ call = "compute_peak_time_intervals" =>
           NeverFlagsLowest(locals["time_interval_avg"], result.value.flags)

\* C10: the apartment of lowest average is never flagged, and none is when all
\* averages are identical; for k >= 0 the hour of lowest average is never a peak,
\* and when all hour averages are identical no hour is flagged and the
\* peak-contribution list is empty.
C10_ThresholdingNeverFlagsEverything ==
    /\ call = "compute_high_consumption_flags" =>
           LET avg == locals["apartment_avg"]
           IN  /\ NeverFlagsLowest(avg, result.value.flags)
               /\ (\A i, j \in 1..Len(avg) : avg[i] = avg[j]) =>
                      \A i \in 1..Len(avg) : ~result.value.flags[i]
    /\ (call = "compute_peak_time_intervals" /\ RLe(RZero, args.k)) =>
           LET time_avg == locals["time_interval_avg"]
           IN  /\ NeverFlagsLowest(time_avg, result.value.flags)
               /\ (\A i, j \in 1..Len(time_avg) : time_avg[i] = time_avg[j]) =>
                      \A i \in 1..Len(time_avg) : ~result.value.flags[i]
    /\ call = "compute_peak_contribution_distribution" =>
           LET time_avg == locals["time_interval_avg"]
           IN  (\A i, j \in 1..Len(time_avg) : time_avg[i] = time_avg[j]) =>
                   /\ result.error = "none"
                   /\ result.value = <<>>

\* ------------------------------------------------------------------------
\* Properties of compute_peak_contribution_distribution (SpecPeak)
\* ------------------------------------------------------------------------

\* The call returned one record for each flagged hour of 0..H-1 and for no other
\* hour, in strictly ascending hour_index order, each ratio in [0, 1] and 0 when the
\* hour sums to 0.
OneRecordPerFlaggedHour ==
    LET H       == NumCols(apartment_data)
        flagged == {j \in 0..(H - 1) : args.peak_flags[j + 1]}
        records == result.value
    IN  /\ result.error = "none"
        /\ {records[n].hour_index : n \in 1..Len(records)} = flagged
        /\ Len(records) = Cardinality(flagged)
        /\ \A n \in 1..(Len(records) - 1) : records[n].hour_index < records[n + 1].hour_index
        /\ \A n \in 1..Len(records) :
              /\ RLe(RZero, records[n].contribution_ratio)
              /\ RLe(records[n].contribution_ratio, ROne)
              /\ SumInt(Column(apartment_data, records[n].hour_index + 1)) = 0 =>
                     records[n].contribution_ratio = RZero

\* C4: called with the configured columns, on a matrix of any shape (A, H) and any
\* flags of length H, compute_peak_contribution_distribution does not fail and
\* returns exactly one record per flagged hour, ascending, each ratio in [0, 1].
C4_PeakContributionWhateverH ==
    (call = "compute_peak_contribution_distribution" /\ args.cols = columns) =>
        OneRecordPerFlaggedHour

\* What does hold: the same when there are as many labels as hours.
PeakContributionWhenLabelsMatchHours ==
    (call = "compute_peak_contribution_distribution"
        /\ Len(args.cols) = NumCols(apartment_data)) =>
        OneRecordPerFlaggedHour

\* ------------------------------------------------------------------------
\* Properties of print_peak_contribution_distribution (SpecInterp)
\* ------------------------------------------------------------------------

\* C8: every record gets one interpretation: "few extreme consumers" when
\* significant_count <= 2 and ratio > 0.5, "several high-usage apartments" when
\* significant_count > 2 and ratio > 0.5, and "moderate increases" otherwise, so
\* whenever ratio <= 0.5 (0.5 included), whatever the count.
C8_InterpretationRules ==
    (call = "print_peak_contribution_distribution" /\ args.peak_analysis # <<>>) =>
        /\ Len(output) = Len(args.peak_analysis)
        /\ \A n \in 1..Len(output) :
              LET count == args.peak_analysis[n].significant_apartments
                  ratio == args.peak_analysis[n].contribution_ratio
                  AboveHalf == 2 * ratio[1] > ratio[2]
                  text  == output[n].interpretation
              IN  /\ (count <= 2 /\ AboveHalf) =>
                         text = "Peak driven by a few extreme consumers."
                  /\ (count > 2 /\ AboveHalf) =>
                         text = "Peak driven by several high-usage apartments."
                  /\ ~AboveHalf =>
                         text = "Peak caused by moderate increases across apartments."

\* A record with ratio exactly 0.5 and at most two significant apartments, printed
\* as moderate.
C8_Witness ==
    /\ call = "print_peak_contribution_distribution"
    /\ \E n \in 1..Len(args.peak_analysis) :
          /\ args.peak_analysis[n].contribution_ratio = <<1, 2>>
          /\ args.peak_analysis[n].significant_apartments <= 2
          /\ output[n].interpretation = "Peak caused by moderate increases across apartments."

\* ------------------------------------------------------------------------
\* Properties of print_most_stable_and_irregular_apartments (SpecRank)
\* ------------------------------------------------------------------------

\* C3: for 1 <= top_n <= A, two apartments of equal score on the same side come
\* lower row index first; scores [0.9, 0.1, 0.5, 0.9, 0.2] with top_n = 3 give
\* most-stable [0, 3, 2] and least-stable [1, 4, 2].
C3_TiesBrokenByLowerIndex ==
    (/\ call = "print_most_stable_and_irregular_apartments"
     /\ args.top_n \in 1..Len(args.stability_scores)) =>
        LET s == args.stability_scores
            LowerIndexFirst(side) ==
                \A m, n \in 1..Len(side) :
                    (m < n /\ s[side[m] + 1] = s[side[n] + 1]) => side[m] < side[n]
        IN  /\ LowerIndexFirst(result.value.stable_indices)
            /\ LowerIndexFirst(result.value.unstable_indices)
            /\ (s = ExampleScores /\ args.top_n = 3) =>
                   /\ result.value.stable_indices = <<0, 3, 2>>
                   /\ result.value.unstable_indices = <<1, 4, 2>>

\* C9: for every top_n >= 0 each side has exactly min(top_n, A) apartments, none
\* twice (so all A when top_n exceeds A).
C9_RankingReturnsMinTopNAndA ==
    call = "print_most_stable_and_irregular_apartments" =>
        LET A == Len(args.stability_scores)
            n == IF args.top_n < A THEN args.top_n ELSE A
            NoRepeat(side) == \A i, j \in 1..Len(side) : i # j => side[i] # side[j]
        IN  /\ Len(result.value.stable_indices) = n
            /\ Len(result.value.unstable_indices) = n
            /\ NoRepeat(result.value.stable_indices)
            /\ NoRepeat(result.value.unstable_indices)

\* What does hold: the same for top_n >= 1.
RankingLengthsForPositiveTopN ==
    (call = "print_most_stable_and_irregular_apartments" /\ args.top_n >= 1) =>
        LET A == Len(args.stability_scores)
            n == IF args.top_n < A THEN args.top_n ELSE A
        IN  /\ Len(result.value.stable_indices) = n
            /\ Len(result.value.unstable_indices) = n
====
